---------------------------- MODULE Spec2Model ----------------------------
(***************************************************************************)
(* A model of MiIni<std::string> (src/MiIni.h): the in-memory ini store,   *)
(* its line parser (readMore/read), its serializer (write), the accessors  *)
(* (getStr/setStr/get/set/exists) and the file binding (open/sync/close).  *)
(*                                                                         *)
(* Strings are sequences of character codes (ASCII), so that std::map's    *)
(* ordering (std::less<std::string>) and the std::string position          *)
(* arithmetic can be modelled as the library computes them.  Positions are *)
(* 0-based as in C++; String::npos is represented by -1, i.e. by its       *)
(* residue modulo 2^w, so that npos + 1 = 0 as in size_t arithmetic.       *)
(*                                                                         *)
(* A loop is a RECURSIVE operator.  Where a pass of a loop feeds the next, *)
(* the value passed on is bound by a set constructor,                      *)
(* CHOOSE r \in {F(x) : x \in {v}} : TRUE, which is F(v) with v evaluated  *)
(* once.                                                                   *)
(***************************************************************************)
EXTENDS Integers, Sequences, FiniteSets, TLC

VARIABLES
    dataMap,    \* std::map<String, std::map<String, String>> dataMap
    mFilename,  \* String mFilename
    mAutoSync,  \* bool mAutoSync
    alive,      \* the object exists (constructed and not yet destroyed)
    files,      \* the file system: path -> content of the file, or NoFile
    call,       \* the last call made on the object, its arguments and outcome
    insertLog   \* history: the sections <<s>> and keys <<s, k>> in the order
                \* in which they were first inserted since the last clear

vars == <<dataMap, mFilename, mAutoSync, alive, files, call, insertLog>>

---------------------------------------------------------------------------
(* Characters *)

TAB  == 9
NL   == 10
SP   == 32
HASH == 35
EQ   == 61
LBR  == 91
RBR  == 93
Npos == -1

\* StringStream spacesSS; spacesSS << " \t";
Spaces == {SP, TAB}

\* The empty String, String()
EmptyStr == << >>

---------------------------------------------------------------------------
(* std::basic_string operations, as used by readMore *)

\* min(n, avail) for a size_t count n: a negative representative stands for
\* a value of at least 2^w - 2, which exceeds every length.
Clip(n, avail) == IF n < 0 \/ n > avail THEN avail ELSE n

FindFirstNotOf(s, cs) ==
    IF \E i \in 1..Len(s) : s[i] \notin cs
    THEN (CHOOSE i \in 1..Len(s) :
              s[i] \notin cs /\ \A j \in 1..(i - 1) : s[j] \in cs) - 1
    ELSE Npos

FindLastNotOf(s, cs) ==
    IF \E i \in 1..Len(s) : s[i] \notin cs
    THEN (CHOOSE i \in 1..Len(s) :
              s[i] \notin cs /\ \A j \in (i + 1)..Len(s) : s[j] \in cs) - 1
    ELSE Npos

FindFirstOf(s, c) ==
    IF \E i \in 1..Len(s) : s[i] = c
    THEN (CHOOSE i \in 1..Len(s) :
              s[i] = c /\ \A j \in 1..(i - 1) : s[j] # c) - 1
    ELSE Npos

\* s.erase(pos, n); every call in readMore has pos <= s.size()
Erase(s, pos, n) ==
    LET cnt == Clip(n, Len(s) - pos)
    IN  SubSeq(s, 1, pos) \o SubSeq(s, pos + cnt + 1, Len(s))

\* s.substr(pos, n); every call in readMore has pos <= s.size()
Substr(s, pos, n) ==
    LET cnt == Clip(n, Len(s) - pos)
    IN  SubSeq(s, pos + 1, pos + cnt)

\* std::less<std::string>: lexicographic comparison of the characters
RECURSIVE LexLess(_, _)
LexLess(a, b) ==
    IF b = << >> THEN FALSE
    ELSE IF a = << >> THEN TRUE
    ELSE IF a[1] # b[1] THEN a[1] < b[1]
    ELSE LexLess(Tail(a), Tail(b))

RECURSIVE Concat(_)
Concat(ss) == IF ss = << >> THEN << >> ELSE Head(ss) \o Concat(Tail(ss))

---------------------------------------------------------------------------
(* std::map operations on dataMap *)

EmptyMap == [s \in {} |-> << >>]

\* ascending order, the order in which a std::map is iterated: the least
\* element m, then the rest
RECURSIVE MapOrderAsc(_)
MapOrderAsc(S) ==
    IF S = {} THEN << >>
    ELSE CHOOSE r \in { <<m>> \o MapOrderAsc(S \ {m}) :
                        m \in {x \in S : \A y \in S \ {x} : LexLess(x, y)} } :
             TRUE

\* descending order: a map declared with the comparison reversed
RECURSIVE MapOrderDesc(_)
MapOrderDesc(S) ==
    IF S = {} THEN << >>
    ELSE CHOOSE r \in { <<m>> \o MapOrderDesc(S \ {m}) :
                        m \in {x \in S : \A y \in S \ {x} : LexLess(y, x)} } :
             TRUE

\* the iteration order of the range-for loops over dataMap and over a section
MapOrder(S) == MapOrderAsc(S)

\* dataMap[sect]: inserts an empty section when sect is absent
MapTouch(dm, sect) ==
    IF sect \in DOMAIN dm THEN dm
    ELSE [s \in DOMAIN dm \cup {sect} |-> IF s = sect THEN EmptyMap ELSE dm[s]]

\* dataMap[sect][key] = val
MapAssign(dm, sect, key, val) ==
    LET d1 == MapTouch(dm, sect)
        kv == [k \in DOMAIN d1[sect] \cup {key} |->
                  IF k = key THEN val ELSE d1[sect][k]]
    IN  [d1 EXCEPT ![sect] = kv]

\* keyvalmap.insert(std::make_pair(key, val)) on dataMap[sect]: no effect
\* when the key is present
MapInsert(dm, sect, key, val) ==
    LET d1 == MapTouch(dm, sect)
    IN  IF key \in DOMAIN d1[sect] THEN d1 ELSE MapAssign(d1, sect, key, val)

\* the mutant of exists: finds the section only
ExistsSectionOnly(dm, sect, key) == sect \in DOMAIN dm

\* exists(sect, key)
Exists(dm, sect, key) == sect \in DOMAIN dm /\ key \in DOMAIN dm[sect]

---------------------------------------------------------------------------
(* readMore *)

\* while (std::getline(is, ln)): the lines of the stream.  A last line
\* without a newline is read when it is not empty.
RECURSIVE GetLines(_)
GetLines(text) ==
    IF text = << >> THEN << >>
    ELSE CHOOSE r \in
             { IF p = Npos THEN <<text>>
               ELSE <<Substr(text, 0, p)>>
                        \o GetLines(Substr(text, p + 1, Npos)) :
               p \in {FindFirstOf(text, NL)} } : TRUE

\* the two trims and the comment erasure at the head of the loop body
StripLine(ln) ==
    LET l1 == Erase(ln, 0, FindFirstNotOf(ln, Spaces))
        l2 == Erase(l1, FindLastNotOf(l1, Spaces) + 1, Npos)
        commentPos == FindFirstOf(l2, HASH)
    IN  IF commentPos # Npos THEN Erase(l2, commentPos + 1, Npos) ELSE l2

\* both ends of s trimmed of space and tab
TrimBoth(s) ==
    LET s1 == Erase(s, 0, FindFirstNotOf(s, Spaces))
    IN  Erase(s1, FindLastNotOf(s1, Spaces) + 1, Npos)

\* the section name of a header line (ln[0] == '[')
HeaderSect(ln) == TrimBoth(Substr(ln, 1, FindFirstOf(ln, RBR) - 1))

\* the key of a key/value line with its '=' at eqpos
LineKey(ln, eqpos) ==
    LET key == Substr(ln, 0, eqpos)
    IN  Erase(key, FindLastNotOf(key, Spaces) + 1, Npos)

\* the value of a key/value line with its '=' at eqpos
LineVal(ln, eqpos) ==
    LET val == Substr(ln, eqpos + 1, Npos)
    IN  Erase(val, 0, FindFirstNotOf(val, Spaces))

\* a stripped line on which readMore reports a format error
IsFormatError(ln) == Len(ln) > 0 /\ ln[1] # LBR /\ FindFirstOf(ln, EQ) = Npos

\* the mutant of LineStep: without the continue, a line with no '=' that is
\* ignored falls through to the key/value code with eqpos = npos
LineStepFallsThrough(raw, sect, ignoreErrors) ==
    LET ln == StripLine(raw)
    IN  IF Len(ln) = 0
        THEN [sect |-> sect, stores |-> << >>, thrown |-> FALSE]
        ELSE IF ln[1] = LBR
        THEN [sect |-> HeaderSect(ln),
              stores |-> << <<"touch", HeaderSect(ln)>> >>, thrown |-> FALSE]
        ELSE LET eqpos == FindFirstOf(ln, EQ)
             IN  IF eqpos = Npos /\ ~ignoreErrors
                 THEN [sect |-> sect, stores |-> << >>, thrown |-> TRUE]
                 ELSE [sect |-> sect,
                       stores |-> << <<"assign", sect, LineKey(ln, eqpos),
                                       LineVal(ln, eqpos)>> >>,
                       thrown |-> FALSE]

\* One pass of the loop body of readMore on the line raw, with the current
\* section sect: the section current afterwards, the store made into
\* dataMap (<<"touch", s>> for dataMap[s], <<"assign", s, k, v>> for
\* dataMap[s][k] = v; none for a line that is skipped), and whether
\* FormatException is thrown.
LineStep(raw, sect, ignoreErrors) ==
    LET ln == StripLine(raw)
    IN  IF Len(ln) = 0
        THEN [sect |-> sect, stores |-> << >>, thrown |-> FALSE]
        ELSE IF ln[1] = LBR
        THEN [sect |-> HeaderSect(ln),
              stores |-> << <<"touch", HeaderSect(ln)>> >>, thrown |-> FALSE]
        ELSE LET eqpos == FindFirstOf(ln, EQ)
             IN  IF eqpos = Npos
                 THEN [sect |-> sect, stores |-> << >>,
                       thrown |-> ~ignoreErrors]
                 ELSE [sect |-> sect,
                       stores |-> << <<"assign", sect, LineKey(ln, eqpos),
                                       LineVal(ln, eqpos)>> >>,
                       thrown |-> FALSE]

\* The loop of readMore over the lines from index i on: the stores made
\* into dataMap, in order, and the line at which FormatException was thrown
\* (0: none).  The loop's control flow does not read dataMap.
RECURSIVE ReadLoop(_, _, _, _)
ReadLoop(lines, i, sect, ignoreErrors) ==
    IF i > Len(lines) THEN [stores |-> << >>, thrown |-> 0]
    ELSE CHOOSE r \in
             { IF st.thrown THEN [stores |-> << >>, thrown |-> i]
               ELSE [ReadLoop(lines, i + 1, st.sect, ignoreErrors)
                         EXCEPT !.stores = st.stores \o @] :
               st \in {LineStep(lines[i], sect, ignoreErrors)} } : TRUE

\* one store of the loop applied to the map
ApplyStore(dm, st) ==
    IF st[1] = "touch" THEN MapTouch(dm, st[2])
    ELSE MapAssign(dm, st[2], st[3], st[4])

\* the stores applied in order
RECURSIVE ApplyStores(_, _)
ApplyStores(dm, sts) ==
    IF sts = << >> THEN dm
    ELSE CHOOSE r \in { ApplyStores(d, Tail(sts)) :
                        d \in {ApplyStore(dm, Head(sts))} } : TRUE

\* readMore(is, ignoreErrors) on the map dm: the map it leaves, the stores
\* it made and the line of the FormatException it throws (0: none)
ReadMoreResult(dm, text, ignoreErrors) ==
    LET r == ReadLoop(GetLines(text), 1, EmptyStr, ignoreErrors)
    IN  [map |-> ApplyStores(dm, r.stores), stores |-> r.stores,
         thrown |-> r.thrown]

\* the mutant of ReadResult: the map is not cleared first
ReadResultKeeps(dm, text, ignoreErrors) ==
    ReadMoreResult(dm, text, ignoreErrors)

\* read(is, ignoreErrors) on the map dm: dataMap.clear(), then readMore
ReadResult(dm, text, ignoreErrors) ==
    ReadMoreResult(EmptyMap, text, ignoreErrors)

---------------------------------------------------------------------------
(* write *)

\* the lines written for one section
WriteSection(dm, sect) ==
    LET keys == MapOrder(DOMAIN dm[sect])
    IN  (IF sect # EmptyStr THEN <<LBR>> \o sect \o <<RBR, NL>> ELSE << >>)
        \o Concat([i \in 1..Len(keys) |->
                      keys[i] \o <<SP, EQ, SP>> \o dm[sect][keys[i]] \o <<NL>>])
        \o <<NL>>

\* write(os): the text written to the stream
WriteText(dm) ==
    LET sects == MapOrder(DOMAIN dm)
    IN  Concat([i \in 1..Len(sects) |-> WriteSection(dm, sects[i])])

---------------------------------------------------------------------------
(* get<int> / set<int>: the StringStream conversions *)

\* ss << val for an int: the decimal digits, with '-' for a negative value
RECURSIVE Digits(_)
Digits(n) == IF n < 10 THEN <<48 + n>> ELSE Digits(n \div 10) \o <<48 + (n % 10)>>

IntToStr(n) == IF n < 0 THEN <<45>> \o Digits(0 - n) ELSE Digits(n)

\* the characters std::isspace accepts, which operator>> skips first
IsSpace == {SP, TAB, NL, 11, 12, 13}

IsDigit(c) == c >= 48 /\ c <= 57

RECURSIVE DigitsValue(_, _)
DigitsValue(s, acc) ==
    IF s = << >> \/ ~IsDigit(s[1]) THEN acc
    ELSE DigitsValue(Tail(s), 10 * acc + (s[1] - 48))

\* ss >> ret leaves ret untouched (uninitialized in get) when only white
\* space is left in the stream: the sentry fails before any extraction
ExtractsNothing(s) == FindFirstNotOf(s, IsSpace) = Npos

\* ss >> ret for an int when the stream holds a non-space character: the
\* value of the leading [+-]digits, or 0 when there are no digits.  The
\* strings of the model are too short for the value to overflow an int.
StrToInt(s) ==
    LET t == Erase(s, 0, FindFirstNotOf(s, IsSpace))
        neg == t[1] = 45
        u == IF t[1] \in {43, 45} THEN Tail(t) ELSE t
    IN  IF u = << >> \/ ~IsDigit(u[1]) THEN 0
        ELSE IF neg THEN 0 - DigitsValue(u, 0) ELSE DigitsValue(u, 0)

---------------------------------------------------------------------------
(* Exceptions and call records *)

NoExc == [type |-> "none", line |-> 0, msg |-> << >>]

\* throw FormatException("Wrong ini file format at line <line>!", line)
FormatExc(line) ==
    [type |-> "FormatException", line |-> line,
     msg |-> <<"Wrong ini file format at line", line>>]

\* throw std::runtime_error(mFilename.length() ? "Can't open ini file
\* \"<mFilename>\"!" : "No linked file specified to be synced ...")
SyncExc(filename) ==
    [type |-> "runtime_error", line |-> 0,
     msg |-> IF Len(filename) # 0
             THEN <<"Can't open ini file", filename>>
             ELSE <<"No linked file specified to be synced to this MinIni!">>]

ExcOfRead(thrown) == IF thrown = 0 THEN NoExc ELSE FormatExc(thrown)

MkCall(op, args, ret, exc, synced) ==
    [op |-> op, args |-> args, ret |-> ret, exc |-> exc, synced |-> synced]

NoCall == MkCall("none", << >>, << >>, NoExc, FALSE)

---------------------------------------------------------------------------
(* The insertion history *)

InLog(log, e) == \E i \in 1..Len(log) : log[i] = e

LogSect(log, s) == IF InLog(log, <<s>>) THEN log ELSE Append(log, <<s>>)

LogKey(log, s, k) ==
    LET l1 == LogSect(log, s)
    IN  IF InLog(l1, <<s, k>>) THEN l1 ELSE Append(l1, <<s, k>>)

LogStore(log, st) ==
    IF st[1] = "touch" THEN LogSect(log, st[2]) ELSE LogKey(log, st[2], st[3])

RECURSIVE LogStores(_, _)
LogStores(log, sts) ==
    IF sts = << >> THEN log
    ELSE CHOOSE r \in { LogStores(l, Tail(sts)) :
                        l \in {LogStore(log, Head(sts))} } : TRUE

---------------------------------------------------------------------------
(* Accessors *)

\* setStr(sect, key, val)
SetStr(sect, key, val) ==
    /\ alive
    /\ dataMap' = MapAssign(dataMap, sect, key, val)
    /\ insertLog' = LogKey(insertLog, sect, key)
    /\ call' = MkCall("setStr", <<sect, key, val>>, << >>, NoExc, FALSE)
    /\ UNCHANGED <<mFilename, mAutoSync, alive, files>>

\* the map getStr/get leave: the default is inserted when the key is absent
GetMap(dm, sect, key, def) ==
    LET d1 == MapTouch(dm, sect)
    IN  IF key \notin DOMAIN d1[sect] THEN MapInsert(d1, sect, key, def) ELSE d1

\* getStr(sect, key, def)
GetStr(sect, key, def) ==
    /\ alive
    /\ dataMap' = GetMap(dataMap, sect, key, def)
    /\ insertLog' = LogKey(insertLog, sect, key)
    /\ call' = MkCall("getStr", <<sect, key, def>>,
                      IF Exists(dataMap, sect, key) THEN dataMap[sect][key] ELSE def,
                      NoExc, FALSE)
    /\ UNCHANGED <<mFilename, mAutoSync, alive, files>>

\* set<int>(sect, key, val)
Set(sect, key, val) ==
    /\ alive
    /\ dataMap' = MapAssign(dataMap, sect, key, IntToStr(val))
    /\ insertLog' = LogKey(insertLog, sect, key)
    /\ call' = MkCall("set", <<sect, key, val>>, << >>, NoExc, FALSE)
    /\ UNCHANGED <<mFilename, mAutoSync, alive, files>>

\* get<int>(sect, key, def): the value returned for a key that exists is
\* any int when nothing is extracted (ret is returned uninitialized)
Get(sect, key, def, any) ==
    /\ alive
    /\ dataMap' = GetMap(dataMap, sect, key, IntToStr(def))
    /\ insertLog' = LogKey(insertLog, sect, key)
    /\ call' = MkCall("get", <<sect, key, def>>,
                      IF ~Exists(dataMap, sect, key) THEN def
                      ELSE IF ExtractsNothing(dataMap[sect][key]) THEN any
                      ELSE StrToInt(dataMap[sect][key]),
                      NoExc, FALSE)
    /\ UNCHANGED <<mFilename, mAutoSync, alive, files>>

\* exists(sect, key) const
ExistsCall(sect, key) ==
    /\ alive
    /\ call' = MkCall("exists", <<sect, key>>, Exists(dataMap, sect, key),
                      NoExc, FALSE)
    /\ UNCHANGED <<dataMap, mFilename, mAutoSync, alive, files, insertLog>>

---------------------------------------------------------------------------
(* Streams *)

\* readMore(is, ignoreErrors), the stream holding text
ReadMore(text, ignoreErrors) ==
    /\ alive
    /\ LET r == ReadMoreResult(dataMap, text, ignoreErrors)
       IN  /\ dataMap' = r.map
           /\ insertLog' = LogStores(insertLog, r.stores)
           /\ call' = MkCall("readMore", <<text, ignoreErrors>>, << >>,
                             ExcOfRead(r.thrown), FALSE)
    /\ UNCHANGED <<mFilename, mAutoSync, alive, files>>

\* read(is, ignoreErrors): dataMap.clear(), then readMore
Read(text, ignoreErrors) ==
    /\ alive
    /\ LET r == ReadResult(dataMap, text, ignoreErrors)
       IN  /\ dataMap' = r.map
           /\ insertLog' = LogStores(<< >>, r.stores)
           /\ call' = MkCall("read", <<text, ignoreErrors>>, << >>,
                             ExcOfRead(r.thrown), FALSE)
    /\ UNCHANGED <<mFilename, mAutoSync, alive, files>>

\* write(os) const: the text written is the call's result
Write ==
    /\ alive
    /\ call' = MkCall("write", << >>, WriteText(dataMap), NoExc, FALSE)
    /\ UNCHANGED <<dataMap, mFilename, mAutoSync, alive, files, insertLog>>

---------------------------------------------------------------------------
(* The file system *)

\* "p": a regular, writable location; "r": an existing read-only file;
\* "q": a location no stream can open (it is no key of files)
PathP == <<112>>
PathR == <<114>>
PathQ == <<113>>

Paths == {EmptyStr, PathP, PathR, PathQ}

\* file.open(filename, std::ios::in); file.good()
CanOpenIn(fs, filename) == filename \in DOMAIN fs /\ fs[filename].exists

\* file.open(filename, std::ios::out); file.good()
CanOpenOut(fs, filename) == filename \in DOMAIN fs /\ fs[filename].writable

\* the file system after a stream opened for output on filename was
\* written text and closed
FileWritten(fs, filename, text) ==
    [fs EXCEPT ![filename] = [@ EXCEPT !.exists = TRUE, !.content = text]]

---------------------------------------------------------------------------
(* File binding *)

\* open(filename, autosync, ignoreErrors), recorded as the call op
OpenAs(op, filename, autosync, ignoreErrors) ==
    /\ mFilename' = filename
    /\ mAutoSync' = autosync
    /\ IF CanOpenIn(files, filename)
       THEN LET r == ReadResult(dataMap, files[filename].content,
                                ignoreErrors)
            IN  /\ dataMap' = r.map
                /\ insertLog' = LogStores(<< >>, r.stores)
                /\ call' = MkCall(op, <<filename, autosync, ignoreErrors>>,
                                  << >>, ExcOfRead(r.thrown), FALSE)
       ELSE /\ call' = MkCall(op, <<filename, autosync, ignoreErrors>>,
                              << >>, NoExc, FALSE)
            /\ UNCHANGED <<dataMap, insertLog>>
    /\ UNCHANGED files

Open(filename, autosync, ignoreErrors) ==
    /\ alive
    /\ OpenAs("open", filename, autosync, ignoreErrors)
    /\ UNCHANGED alive

\* sync() const
Sync ==
    /\ alive
    /\ IF CanOpenOut(files, mFilename)
       THEN /\ files' = FileWritten(files, mFilename, WriteText(dataMap))
            /\ call' = MkCall("sync", << >>, << >>, NoExc, TRUE)
       ELSE /\ call' = MkCall("sync", << >>, << >>, SyncExc(mFilename), TRUE)
            /\ UNCHANGED files
    /\ UNCHANGED <<dataMap, mFilename, mAutoSync, alive, insertLog>>

\* the mutant of CloseSyncs: the linked path is not looked at
CloseSyncsOnFlag(filename, autosync) == autosync

\* if (mFilename.length() && mAutoSync) in close
CloseSyncs(filename, autosync) == Len(filename) # 0 /\ autosync

\* the mutant of CloseClears: the store is reset whatever sync did
CloseClearsAlways(syncs, fs, filename) == TRUE

\* whether close reaches dataMap.clear(): sync() was not called, or returned
CloseClears(syncs, fs, filename) == ~syncs \/ CanOpenOut(fs, filename)

\* close(), recorded as the call op
CloseAs(op) ==
    LET syncs  == CloseSyncs(mFilename, mAutoSync)
        thrown == syncs /\ ~CanOpenOut(files, mFilename)
    IN  /\ files' = IF syncs /\ ~thrown
                    THEN FileWritten(files, mFilename, WriteText(dataMap))
                    ELSE files
        /\ call' = MkCall(op, << >>, << >>,
                          IF thrown THEN SyncExc(mFilename) ELSE NoExc, syncs)
        /\ IF CloseClears(syncs, files, mFilename)
           THEN /\ dataMap' = EmptyMap
                /\ insertLog' = << >>
                /\ mFilename' = EmptyStr
                /\ mAutoSync' = FALSE
           ELSE UNCHANGED <<dataMap, insertLog, mFilename, mAutoSync>>

Close ==
    /\ alive
    /\ CloseAs("close")
    /\ UNCHANGED alive

\* ~MiIni(): close().  An exception leaving the destructor ends the program
\* (std::terminate), so nothing follows a destruction that threw.
Destroy ==
    /\ alive
    /\ CloseAs("~MiIni")
    /\ alive' = FALSE

\* MiIni(): mAutoSync(false), after an earlier object was destroyed
Construct ==
    /\ ~alive
    /\ call.exc.type = "none"
    /\ alive' = TRUE
    /\ dataMap' = EmptyMap
    /\ insertLog' = << >>
    /\ mFilename' = EmptyStr
    /\ mAutoSync' = FALSE
    /\ call' = MkCall("MiIni", << >>, << >>, NoExc, FALSE)
    /\ UNCHANGED files

\* MiIni(filename, autosync): open(filename, autosync) on the new object,
\* whose dataMap is empty (as the destroyed object's was left by close)
ConstructOpen(filename, autosync) ==
    /\ ~alive
    /\ call.exc.type = "none"
    /\ alive' = TRUE
    /\ OpenAs("MiIni", filename, autosync, FALSE)

\* setFilename(filename)
SetFilename(filename) ==
    /\ alive
    /\ mFilename' = filename
    /\ call' = MkCall("setFilename", <<filename>>, << >>, NoExc, FALSE)
    /\ UNCHANGED <<dataMap, mAutoSync, alive, files, insertLog>>

\* enableAutoSync(enable)
EnableAutoSync(enable) ==
    /\ alive
    /\ mAutoSync' = enable
    /\ call' = MkCall("enableAutoSync", <<enable>>, << >>, NoExc, FALSE)
    /\ UNCHANGED <<dataMap, mFilename, alive, files, insertLog>>

---------------------------------------------------------------------------
(* Texts *)

MaxTextLen == 4

\* the characters of the streams read: newline, space, '#', '=', '[', ']', 'a'
Alphabet == {NL, SP, HASH, EQ, LBR, RBR, 97}

\* every stream of at most MaxTextLen characters
ShortTexts == UNION {[1..n -> Alphabet] : n \in 0..MaxTextLen}

\* longer streams: "a = a # a\n", "[a]\na\n=a\n", " [ a ] \n a = a \n",
\* "# a\n\na\n", "\ta\t=\ta\t#\n" and "[a]\na=a\n[]\n=\n"
LongTexts ==
    { <<97, SP, EQ, SP, 97, SP, HASH, SP, 97, NL>>,
      <<LBR, 97, RBR, NL, 97, NL, EQ, 97, NL>>,
      <<SP, LBR, SP, 97, SP, RBR, SP, NL, SP, 97, SP, EQ, SP, 97, SP, NL>>,
      <<HASH, SP, 97, NL, NL, 97, NL>>,
      <<TAB, 97, TAB, EQ, TAB, 97, TAB, HASH, NL>>,
      <<LBR, 97, RBR, NL, 97, EQ, 97, NL, LBR, RBR, NL, EQ, NL>> }

Texts == ShortTexts \cup LongTexts

\* "a", "b" and "7" as Strings
StrA == <<97>>
StrB == <<98>>

---------------------------------------------------------------------------
(* The initial state: a default-constructed MiIni and the files on disk *)

\* "a = b\na\n[b]\n": a format error at line 2
FileRText == <<97, SP, EQ, SP, 98, NL, 97, NL, LBR, 98, RBR, NL>>

\* the files at the start: none at "p", the read-only file at "r"
InitFiles ==
    (PathP :> [exists |-> FALSE, writable |-> TRUE, content |-> << >>])
    @@ (PathR :> [exists |-> TRUE, writable |-> FALSE, content |-> FileRText])

InitObject ==
    /\ dataMap = EmptyMap
    /\ mFilename = EmptyStr
    /\ mAutoSync = FALSE
    /\ alive = TRUE
    /\ call = NoCall
    /\ insertLog = << >>

---------------------------------------------------------------------------
(* SpecParse: one readMore or read of any short stream, into an empty *)
(* store or into one that holds a value                               *)

InitParse == InitObject /\ files = InitFiles

Unread == call.op \in {"none", "setStr"}

ParsePreload == call.op = "none" /\ SetStr(EmptyStr, StrA, StrB)

ParseReadMore ==
    Unread /\ \E text \in Texts, ign \in BOOLEAN : ReadMore(text, ign)

\* read of an empty store is readMore of it: read is called on the store
\* that holds a value
ParseRead ==
    call.op = "setStr" /\ \E text \in Texts, ign \in BOOLEAN : Read(text, ign)

NextParse == ParsePreload \/ ParseReadMore \/ ParseRead

SpecParse == InitParse /\ [][NextParse]_vars

---------------------------------------------------------------------------
(* Claims on readMore / read (SpecParse) *)

\* a step that is a call of readMore or read
ReadStep == call' # call /\ call'.op \in {"readMore", "read"}

\* the map readMore or read starts from
ReadBase == IF call'.op = "read" THEN EmptyMap ELSE dataMap

\* the lines, each ended by a newline, as one stream
RECURSIVE JoinLines(_)
JoinLines(lines) ==
    IF lines = << >> THEN << >>
    ELSE Head(lines) \o <<NL>> \o JoinLines(Tail(lines))

\* a line as the specification strips it: trimmed, everything from the
\* first '#' on deleted, and the space and tab before the '#' with it
Uncommented(raw) ==
    LET t == TrimBoth(raw)
        p == FindFirstOf(t, HASH)
    IN  IF p = Npos THEN t ELSE TrimBoth(Substr(t, 0, p))

UncommentedText(text) ==
    LET lines == GetLines(text)
    IN  JoinLines([i \in 1..Len(lines) |-> Uncommented(lines[i])])

\* C2: readMore/read discard the comment of every line, '#' included, with
\* the space and tab around it: the call leaves the map, and raises the
\* error, that it leaves and raises for the stream with its comments
\* deleted (so "a=a #a" stores a -> a, and a comment line is a blank line).
C2_CommentsDiscarded ==
    [][ReadStep =>
          LET r == ReadMoreResult(ReadBase, UncommentedText(call'.args[1]),
                                  call'.args[2])
          IN  dataMap' = r.map /\ call'.exc = ExcOfRead(r.thrown)]_vars

\* a read of a stream with a line that holds a comment
C2_Witness ==
    /\ call.op \in {"readMore", "read"}
    /\ \E i \in 1..Len(call.args[1]) : call.args[1][i] = HASH

\* a line that is malformed as the specification defines it: not empty once
\* trimmed and uncommented, not a header, and without '='
SpecMalformed(raw) ==
    LET ln == Uncommented(raw)
    IN  Len(ln) > 0 /\ ln[1] # LBR /\ FindFirstOf(ln, EQ) = Npos

\* a line that readMore treats as malformed
CodeMalformed(raw) == IsFormatError(StripLine(raw))

\* C3: with ignoreErrors = false, readMore/read raise FormatException
\* exactly when some line is malformed (not empty after trimming and
\* comment stripping, not a header, no '='); its line is the 1-based index
\* of the first such line, and no line after it changes the map.
C3_FormatErrorExactly ==
    [][(ReadStep /\ ~call'.args[2]) =>
          LET lines == GetLines(call'.args[1])
              bad == {i \in 1..Len(lines) : SpecMalformed(lines[i])}
              first == CHOOSE i \in bad : \A j \in bad : i <= j
          IN  /\ (call'.exc.type = "FormatException") = (bad # {})
              /\ bad = {} => call'.exc = NoExc
              /\ bad # {} =>
                    /\ call'.exc.line = first
                    /\ dataMap' = ReadMoreResult(ReadBase,
                           JoinLines(SubSeq(lines, 1, first - 1)), FALSE).map
       ]_vars

\* a read that raised FormatException at a line after the first
C3_Witness ==
    /\ call.op \in {"readMore", "read"}
    /\ call.exc.type = "FormatException"
    /\ call.exc.line > 1

\* C3 with the comment stripping that readMore performs in place of the
\* specification's: the same statement about the lines the code finds
\* malformed
C3_WithCodeStripping ==
    [][(ReadStep /\ ~call'.args[2]) =>
          LET lines == GetLines(call'.args[1])
              bad == {i \in 1..Len(lines) : CodeMalformed(lines[i])}
              first == CHOOSE i \in bad : \A j \in bad : i <= j
          IN  /\ (call'.exc.type = "FormatException") = (bad # {})
              /\ bad = {} => call'.exc = NoExc
              /\ bad # {} =>
                    /\ call'.exc.line = first
                    /\ dataMap' = ReadMoreResult(ReadBase,
                           JoinLines(SubSeq(lines, 1, first - 1)), FALSE).map
       ]_vars

\* C4: with ignoreErrors = true, readMore/read raise no error, and the map
\* they leave is the one left by reading the stream without its malformed
\* lines, which raises no error with ignoreErrors = false.
C4_MalformedLinesSkipped ==
    [][(ReadStep /\ call'.args[2]) =>
          LET lines == GetLines(call'.args[1])
              kept == SelectSeq(lines, LAMBDA l : ~CodeMalformed(l))
              r == ReadMoreResult(ReadBase, JoinLines(kept), FALSE)
          IN  /\ call'.exc = NoExc
              /\ r.thrown = 0
              /\ dataMap' = r.map]_vars

\* a read with ignoreErrors = true of a stream with a malformed line that
\* is followed by a key/value line, which was stored
C4_Witness ==
    /\ call.op \in {"readMore", "read"}
    /\ call.args[2]
    /\ LET lines == GetLines(call.args[1])
       IN  \E i, j \in 1..Len(lines) :
              /\ i < j
              /\ CodeMalformed(lines[i])
              /\ LineStep(lines[j], EmptyStr, TRUE).stores # << >>
              /\ LineStep(lines[j], EmptyStr, TRUE).stores[1][1] = "assign"
    /\ dataMap # EmptyMap

---------------------------------------------------------------------------
(* Spec: the accessors and the streams on a store of a few sections and *)
(* keys                                                                 *)

MaxInserts == 3

StoreSects == {EmptyStr, StrA, StrB}
StoreKeys  == {StrA, StrB}
StoreVals  == {StrA, StrB}
StoreInts  == {7}

\* "[b]\n", "[]\n", "b = a\n[a]\na =\n"
StoreTexts ==
    { <<LBR, 98, RBR, NL>>,
      <<LBR, RBR, NL>>,
      <<98, SP, EQ, SP, 97, NL, LBR, 97, RBR, NL, 97, SP, EQ, NL>> }

\* the bound of the model: at most MaxInserts sections and keys are inserted
Bounded == Len(insertLog') <= MaxInserts

StoreSetStr ==
    \E s \in StoreSects, k \in StoreKeys, v \in StoreVals :
        SetStr(s, k, v) /\ Bounded

StoreGetStr ==
    \E s \in StoreSects, k \in StoreKeys, d \in StoreVals :
        GetStr(s, k, d) /\ Bounded

StoreSet ==
    \E s \in StoreSects, k \in StoreKeys, n \in StoreInts :
        Set(s, k, n) /\ Bounded

StoreGet ==
    \E s \in StoreSects, k \in StoreKeys, d \in StoreInts, any \in {0, 7} :
        Get(s, k, d, any) /\ Bounded

StoreExists == \E s \in StoreSects, k \in StoreKeys : ExistsCall(s, k)

StoreReadMore ==
    \E text \in StoreTexts, ign \in BOOLEAN : ReadMore(text, ign) /\ Bounded

StoreRead == \E text \in StoreTexts : Read(text, TRUE) /\ Bounded

\* read(is) of the stream that the write before it wrote
StoreReadBack == call.op = "write" /\ Read(call.ret, FALSE)

Init == InitObject /\ files = InitFiles

Next ==
    \/ StoreSetStr
    \/ StoreGetStr
    \/ StoreSet
    \/ StoreGet
    \/ StoreExists
    \/ StoreReadMore
    \/ StoreRead
    \/ Write
    \/ StoreReadBack

Spec == Init /\ [][Next]_vars

---------------------------------------------------------------------------
(* SpecFile: the file binding, with the store set by setStr and by open *)

FileSetStr == SetStr(StrA, StrA, StrA)

FileOpen ==
    \E f \in Paths, a \in BOOLEAN, ign \in BOOLEAN : Open(f, a, ign)

FileConstructOpen == \E f \in Paths, a \in BOOLEAN : ConstructOpen(f, a)

FileSetFilename == \E f \in Paths : SetFilename(f)

FileEnableAutoSync == \E e \in BOOLEAN : EnableAutoSync(e)

InitFile == InitObject /\ files = InitFiles

NextFile ==
    \/ FileSetStr
    \/ FileOpen
    \/ Sync
    \/ Close
    \/ Destroy
    \/ Construct
    \/ FileConstructOpen
    \/ FileSetFilename
    \/ FileEnableAutoSync

SpecFile == InitFile /\ [][NextFile]_vars

---------------------------------------------------------------------------
(* Claims on write and the accessors (Spec) *)

\* a String the round trip is claimed for: no '#', '[', ']', '=' and no
\* leading or trailing space or tab
SafeStr(str) ==
    /\ \A i \in 1..Len(str) : str[i] \notin {HASH, LBR, RBR, EQ}
    /\ TrimBoth(str) = str

SafeMap(dm) ==
    \A sect \in DOMAIN dm :
        /\ SafeStr(sect)
        /\ \A k \in DOMAIN dm[sect] : SafeStr(k) /\ SafeStr(dm[sect][k])

\* a step that reads the stream the write before it wrote
ReadBackStep ==
    call.op = "write" /\ call'.op = "read" /\ call'.args[1] = call.ret

\* C1: for every map M whose names, keys and values are safe, sections
\* without keys and the default section included, read of what write wrote
\* for M leaves a map equal to M, and raises no error.
C1_RoundTrip ==
    [][(ReadBackStep /\ SafeMap(dataMap)) =>
          (dataMap' = dataMap /\ call'.exc = NoExc)]_vars

\* a map read back from what write wrote for it, with a section without
\* keys and a section with a key
C1_Witness ==
    /\ call.op = "read"
    /\ call.args[1] = WriteText(dataMap)
    /\ \E sect \in DOMAIN dataMap : dataMap[sect] = EmptyMap
    /\ \E sect \in DOMAIN dataMap : dataMap[sect] # EmptyMap

\* the default section, present without a key
KeylessDefault(dm) == EmptyStr \in DOMAIN dm /\ dm[EmptyStr] = EmptyMap

\* C1 for the maps without a keyless default section
C1_ExceptKeylessDefault ==
    [][(ReadBackStep /\ SafeMap(dataMap) /\ ~KeylessDefault(dataMap)) =>
          (dataMap' = dataMap /\ call'.exc = NoExc)]_vars

\* the sections of a log, in its order
SectOrder(log) ==
    LET ss == SelectSeq(log, LAMBDA e : Len(e) = 1)
    IN  [i \in 1..Len(ss) |-> ss[i][1]]

\* the keys of section sect in a log, in its order
KeyOrder(log, sect) ==
    LET ks == SelectSeq(log, LAMBDA e : Len(e) = 2 /\ e[1] = sect)
    IN  [i \in 1..Len(ks) |-> ks[i][2]]

\* the sections and keys of a written text in the order of their lines:
\* the log of the stores that reading the text makes
Emitted(text) ==
    LogStores(<< >>, ReadLoop(GetLines(text), 1, EmptyStr, FALSE).stores)

Ascending(names) ==
    \A i, j \in 1..Len(names) : i < j => LexLess(names[i], names[j])

\* the sections that write shows: the default section shows by its keys only
Shown(dm, sects) ==
    SelectSeq(sects, LAMBDA x : ~(x = EmptyStr /\ dm[x] = EmptyMap))

\* C8: write emits the sections in the order in which they were first
\* inserted, and the keys of each section in the order in which they were
\* first inserted.
C8_InsertionOrder ==
    call.op = "write" =>
        LET em == Emitted(call.ret)
        IN  /\ SectOrder(em) = Shown(dataMap, SectOrder(insertLog))
            /\ \A sect \in DOMAIN dataMap :
                   KeyOrder(em, sect) = KeyOrder(insertLog, sect)

\* C8 (amended): write emits every section once, in ascending order of the
\* names (std::map's order), and every key of a section once, in ascending
\* order of the keys, whatever the order of insertion.
C8_AscendingOrder ==
    call.op = "write" =>
        LET em == Emitted(call.ret)
        IN  /\ Ascending(SectOrder(em))
            /\ {SectOrder(em)[i] : i \in 1..Len(SectOrder(em))}
                   = {x \in DOMAIN dataMap : ~KeylessDefault(dataMap) \/ x # EmptyStr}
            /\ \A sect \in DOMAIN dataMap :
                   /\ Ascending(KeyOrder(em, sect))
                   /\ {KeyOrder(em, sect)[i] : i \in 1..Len(KeyOrder(em, sect))}
                          = DOMAIN dataMap[sect]

\* a write of a store whose sections, or the keys of one section, were not
\* inserted in ascending order
C8_Witness ==
    /\ call.op = "write"
    /\ \/ ~Ascending(SectOrder(insertLog))
       \/ \E sect \in DOMAIN dataMap : ~Ascending(KeyOrder(insertLog, sect))

\* the names of the model
Names == {EmptyStr, StrA, StrB, <<55>>}

\* C9 in a state: exists is true of exactly the (section, key) stored, and
\* of the one just stored by setStr, set, getStr or get
ExistsIffStored ==
    /\ \A sect \in Names, k \in Names :
           Exists(dataMap, sect, k) = InLog(insertLog, <<sect, k>>)
    /\ call.op = "exists" =>
           call.ret = InLog(insertLog, <<call.args[1], call.args[2]>>)
    /\ call.op \in {"setStr", "set", "getStr", "get"} =>
           Exists(dataMap, call.args[1], call.args[2])

\* C9: after any sequence of operations exists(section, key) is true iff
\* the key was stored in the section (false for another key of a section
\* that exists), true right after setStr, set, getStr or get of it, and a
\* call of exists does not change the map.
C9_ExistsIffStored ==
    [][ExistsIffStored' /\ (call'.op = "exists" => dataMap' = dataMap)]_vars

\* exists answered false for a key of a section that exists
C9_Witness ==
    /\ call.op = "exists"
    /\ call.ret = FALSE
    /\ call.args[1] \in DOMAIN dataMap

---------------------------------------------------------------------------
(* Claims on the file binding (SpecFile) *)

\* a step that is a call of close, explicit or from the destructor
CloseStep == call'.op \in {"close", "~MiIni"}

C6_SyncFileError ==
    [][call'.op = "sync" =>
          IF ~CanOpenOut(files, mFilename)
          THEN /\ call'.exc.type = "FileError"
               /\ call'.exc.msg[1] =
                      IF Len(mFilename) = 0
                      THEN "No linked file specified to be synced to this MinIni!"
                      ELSE "Can't open ini file"
               /\ Len(mFilename) # 0 => call'.exc.msg[2] = mFilename
               /\ UNCHANGED <<dataMap, mFilename, mAutoSync, files>>
          ELSE /\ call'.exc = NoExc
               /\ files'[mFilename].content = WriteText(dataMap)
               /\ UNCHANGED <<dataMap, mFilename, mAutoSync>>]_vars

\* a sync that failed on a linked path
C6_Witness ==
    /\ call.op = "sync"
    /\ call.exc.type # "none"
    /\ Len(mFilename) # 0

\* C6 with the exception's type left open: the rest of the claim
C6_ExceptTheType ==
    [][call'.op = "sync" =>
          IF ~CanOpenOut(files, mFilename)
          THEN /\ call'.exc.type # "none"
               /\ call'.exc.msg[1] =
                      IF Len(mFilename) = 0
                      THEN "No linked file specified to be synced to this MinIni!"
                      ELSE "Can't open ini file"
               /\ Len(mFilename) # 0 => call'.exc.msg[2] = mFilename
               /\ UNCHANGED <<dataMap, mFilename, mAutoSync, files>>
          ELSE /\ call'.exc = NoExc
               /\ files'[mFilename].content = WriteText(dataMap)
               /\ UNCHANGED <<dataMap, mFilename, mAutoSync>>]_vars

\* C7: open(path, autosync, ignoreErrors) links path and sets autoSync; if
\* the file cannot be opened for reading it raises no error and leaves the
\* map as it was; if it can, the map is the one that reading the file into
\* an empty store leaves.
C7_OpenLinksAndReads ==
    [][call'.op = "open" =>
          /\ mFilename' = call'.args[1]
          /\ mAutoSync' = call'.args[2]
          /\ IF CanOpenIn(files, call'.args[1])
             THEN dataMap' = ReadMoreResult(EmptyMap,
                                 files[call'.args[1]].content,
                                 call'.args[3]).map
             ELSE dataMap' = dataMap /\ call'.exc = NoExc]_vars

\* an open of a path that cannot be read, which left the values of the map
C7_Witness ==
    /\ call.op = "open"
    /\ ~CanOpenIn(files, call.args[1])
    /\ call.args[1] # EmptyStr
    /\ dataMap # EmptyMap

\* C10: when the sync that close calls fails, the failure leaves close and
\* the store is as before the call: the map is not cleared, and the path
\* and autoSync keep their values (so the store is still linked).
C10_FailedCloseKeepsStore ==
    [][(call'.op = "close" /\ Len(mFilename) # 0 /\ mAutoSync
            /\ ~CanOpenOut(files, mFilename)) =>
          /\ call'.exc = SyncExc(mFilename)
          /\ UNCHANGED <<dataMap, mFilename, mAutoSync, files>>]_vars

\* a close that failed on a store that holds values
C10_Witness ==
    /\ call.op = "close"
    /\ call.exc.type = "runtime_error"
    /\ dataMap # EmptyMap
    /\ Len(mFilename) # 0
    /\ mAutoSync

===========================================================================
